---- MODULE Spec2Model ----
(***************************************************************************)
(* The pipeline page of omni_core (the Home component), its stream         *)
(* consumer handleProcessVideo, the stop and reset handlers, and the       *)
(* simulated-progress hook useMultiStepProgress, as a state machine.       *)
(*                                                                         *)
(* React state is one variable per useState cell.  A handler, or the       *)
(* continuation of the stream consumer between two awaits, is one action:  *)
(* JavaScript runs it to completion, React batches its state updates,      *)
(* renders once and then runs the effects (the localStorage write and the  *)
(* ramp effect) on the state the handler left.                             *)
(*                                                                         *)
(* Progress numbers (reported and simulated) are kept in tenths of a       *)
(* percent so that Math.round is a real operation; the displayed progress  *)
(* is in whole percents.                                                   *)
(*                                                                         *)
(* Left out: activeSection and the `progress` field stored inside a step   *)
(* (both are written but never read by the code modelled here: the         *)
(* displayed progress is recomputed by stepsWithProgress).                 *)
(***************************************************************************)
EXTENDS Integers, Sequences, FiniteSets, TLC

VARIABLES
    steps,              \* useState steps: the stage list
    isLoading,          \* useState isLoading
    error,              \* useState error ("null" is null)
    result,             \* useState result: the aggregate
    realProgress,       \* useState realProgress: reported channel, tenths of %
    selectedPlatforms,  \* useState selectedPlatforms
    thinking,           \* isThinking, thinkingStep, thinkingLabel, thinkingText
    progressMap,        \* useMultiStepProgress progressMap: simulated channel
    timers,             \* intervalsRef: per stage no handle, live or cleared
    rerender,           \* a render scheduled by setProgressMap is pending
    storage,            \* localStorage: the three omnicore_* keys
    pc,                 \* per run: where its handleProcessVideo call stands
    nread,              \* per run: lines taken from the stream so far
    chunk,              \* the chunk the last step read: its run and `lines`
    currentRun,         \* window.currentPipelineController (0: none yet)
    aborted,            \* per run: controller.abort() was called
    resetPending,       \* resetSteps calls awaiting the reset-project fetch
    ticks,              \* ramp ticks fired so far
    resetDone,          \* a resetSteps call completed and no run began since
    stream,             \* frame decoder: the bytes the response body carries
    pos,                \* frame decoder: how many of them were read
    pending,            \* frame decoder: TextDecoder's incomplete sequence
    buffer,             \* frame decoder: `buffer`, the unterminated remainder
    linesOut,           \* frame decoder: the lines handed to the for loop
    streamDone,         \* frame decoder: read() answered done
    nchunks             \* frame decoder: chunks read so far

vars == <<steps, isLoading, error, result, realProgress, selectedPlatforms,
          thinking, progressMap, timers, rerender, storage, pc, nread, chunk,
          currentRun, aborted, resetPending, ticks, resetDone,
          stream, pos, pending, buffer, linesOut, streamDone, nchunks>>

decoderVars == <<stream, pos, pending, buffer, linesOut, streamDone, nchunks>>

engineVars == <<steps, isLoading, error, result, realProgress, selectedPlatforms,
                thinking, progressMap, timers, rerender, storage, pc, nread, chunk,
                currentRun, aborted, resetPending, ticks, resetDone>>

uiVars == <<steps, isLoading, error, result, realProgress, selectedPlatforms,
            thinking>>

-----------------------------------------------------------------------------
(* Bounds of the model *)

\* handleProcessVideo calls in one behaviour
MaxRuns == 2
\* lines one stream delivers
MaxLines == 3
\* lines one chunk holds
MaxChunkLines == 2
\* ramp ticks in one behaviour
MaxTicks == 2
\* resetSteps calls that await the worker at the same time
MaxPendingResets == 1
\* bytes of a response body given to the frame decoder
MaxStreamLen == 5

Runs == 1..MaxRuns

-----------------------------------------------------------------------------
(* Program constants *)

\* setProgressMap(... 5): the ramp's floor, in tenths of a percent
RampFloor == 50
\* incrementPerMs * intervalMs = 0.05 * 100, in tenths of a percent
RampIncrement == 50
\* maxProgress: 90, in tenths of a percent
MaxProgress == 900

INITIAL_STEPS ==
    << [id |-> "transcription", status |-> "pending"],
       [id |-> "analysis",      status |-> "pending"],
       [id |-> "generation",    status |-> "pending"],
       [id |-> "visuals",       status |-> "pending"],
       [id |-> "audio",         status |-> "pending"],
       [id |-> "storage",       status |-> "pending"] >>

StageIds == {INITIAL_STEPS[i].id : i \in DOMAIN INITIAL_STEPS}

PLATFORMS == {"twitter", "linkedin", "blog", "newsletter", "audio", "visuals"}

\* The requested output sets a run is started with
RequestChoices ==
    { {"twitter"}, {"visuals", "audio"}, PLATFORMS }

ResultKeys ==
    {"analysis", "research", "linkedin_post", "twitter_thread", "blog_post",
     "linkedin_hooks", "broll_images", "seo_score", "newsletter_html",
     "carousel", "thumbnails", "audio"}

NullResult == [isNull |-> TRUE, v |-> [k \in ResultKeys |-> "undefined"]]

\* setResult({analysis: undefined, ..., linkedin_hooks: [], broll_images: [], ...})
EmptyResult ==
    [isNull |-> FALSE,
     v |-> [k \in ResultKeys |->
              IF k \in {"linkedin_hooks", "broll_images"} THEN "[]" ELSE "undefined"]]

NoThinking == [on |-> FALSE, step |-> "", label |-> "", text |-> <<>>]

StopMessage == "Pipeline stopped by user"

-----------------------------------------------------------------------------
(* The lines a stream can carry *)

ContentTypes ==
    {"analysis", "research", "linkedin", "twitter", "blog", "hooks", "broll",
     "seo", "newsletter", "carousel", "thumbnails", "audio"}

\* blank: a line that is empty after trim; malformed: JSON.parse throws;
\* unknown: a record whose type no case matches
PlainTypes ==
    {"blank", "malformed", "unknown", "status", "thinking_start", "thinking",
     "thinking_done", "transcript", "airtable"}

ProgressSteps == {"transcription"}
\* event.percent in tenths: 2.4, 40.4 and 80
Percents == {24, 404, 800}
ErrorTexts == {"rate limited"}

Line(type, step, percent, data, err) ==
    [type |-> type, step |-> step, percent |-> percent, data |-> data, error |-> err]

\* The payload of the content events of run r's stream
DataOf(r) == "d" \o ToString(r)

\* thinking_start carries its label, and thinking its token, in `data`
LinesOf(r) ==
    {Line(t, "", 0, "", "") : t \in PlainTypes \ {"thinking_start", "thinking"}}
    \cup {Line("thinking_start", "analysis", 0, "Analyzing", "")}
    \cup {Line("thinking", "", 0, "tok", "")}
    \cup {Line("progress", s, p, "", "") : s \in ProgressSteps, p \in Percents}
    \cup {Line(t, "", 0, DataOf(r), "") : t \in ContentTypes}
    \cup {Line("error", "", 0, "", m) : m \in ErrorTexts}

\* The lines of the streams when the behaviour is about the stage machine
CoreTypes ==
    {"malformed", "thinking_start", "transcript", "analysis", "research", "carousel",
     "airtable", "error"}
CoreLinesOf(r) == {l \in LinesOf(r) : l.type \in CoreTypes}

\* The lines of the streams when the behaviour is about the progress bars
RampTypes == {"progress", "transcript", "thinking_start", "thinking"}
RampLinesOf(r) == {l \in LinesOf(r) : l.type \in RampTypes}

\* the chunks of at most MaxChunkLines lines, and at most budget lines, over L
ChunksOf(L, budget) ==
    UNION {[1..n -> L] : n \in 1..(IF budget < MaxChunkLines THEN budget ELSE MaxChunkLines)}

NoChunk == [run |-> 0, lines |-> << >>]

FetchErrors ==
    {"Failed to fetch", "HTTP error! status: 500", "Error: No response body"}
ReadErrors == {"TypeError: network error"}

-----------------------------------------------------------------------------
(* The stage plan and the stage list *)

\* a plan that skips nothing
SmartStepsNoSkipping(platforms) == INITIAL_STEPS

\* smartSteps of handleProcessVideo
SmartSteps(platforms) ==
    [i \in DOMAIN INITIAL_STEPS |->
        LET step == INITIAL_STEPS[i] IN
        IF step.id \in {"transcription", "analysis", "storage"} THEN step
        ELSE IF step.id = "generation" THEN
            IF {"twitter", "blog", "linkedin", "newsletter"} \cap platforms # {}
            THEN step ELSE [step EXCEPT !.status = "skipped"]
        ELSE IF step.id = "visuals" THEN
            IF "visuals" \in platforms THEN step ELSE [step EXCEPT !.status = "skipped"]
        ELSE IF step.id = "audio" THEN
            IF "audio" \in platforms THEN step ELSE [step EXCEPT !.status = "skipped"]
        ELSE step]

\* an update that adds a stage when no stage has the id
updateStepStatusUpsert(st, id, status) ==
    IF \E i \in DOMAIN st : st[i].id = id
    THEN [i \in DOMAIN st |->
            IF st[i].id = id THEN [st[i] EXCEPT !.status = status] ELSE st[i]]
    ELSE Append(st, [id |-> id, status |-> status])

\* updateStepStatus: prev.map(step => step.id === id ? {...step, status} : step)
updateStepStatus(st, id, status) ==
    [i \in DOMAIN st |->
        IF st[i].id = id THEN [st[i] EXCEPT !.status = status] ELSE st[i]]

\* handleStopPipeline marking the active stages as the catch block does
StopStepsAsError(st) ==
    [i \in DOMAIN st |->
        IF st[i].status = "active" THEN [st[i] EXCEPT !.status = "error"] ELSE st[i]]

\* handleStopPipeline's setSteps: active stages go back to pending
StopSteps(st) ==
    [i \in DOMAIN st |->
        IF st[i].status = "active" THEN [st[i] EXCEPT !.status = "pending"] ELSE st[i]]

\* the catch block marking every stage
ErrorStepsEveryStage(st) ==
    [i \in DOMAIN st |-> [st[i] EXCEPT !.status = "error"]]

\* the catch block's setSteps: active stages become error
ErrorSteps(st) ==
    [i \in DOMAIN st |->
        IF st[i].status = "active" THEN [st[i] EXCEPT !.status = "error"] ELSE st[i]]

\* a completion that leaves the pending and skipped stages as they are
CompleteStepsActiveOnly(st) ==
    [i \in DOMAIN st |->
        IF st[i].status = "active" THEN [st[i] EXCEPT !.status = "completed"] ELSE st[i]]

\* after the read loop: every stage becomes completed
CompleteSteps(st) ==
    [i \in DOMAIN st |-> [st[i] EXCEPT !.status = "completed"]]

\* the status the stage list gives stage id
StatusOf(st, id) == st[CHOOSE i \in DOMAIN st : st[i].id = id].status

-----------------------------------------------------------------------------
(* Applying the lines of one chunk: the for loop of handleProcessVideo.     *)
(* The React state is threaded through as a record; `returned` is set by    *)
(* the error case's return, `dirty` when result, steps or selectedPlatforms *)
(* got a new value (the dependencies of the localStorage effect).           *)

UI ==
    [steps |-> steps, isLoading |-> isLoading, error |-> error,
     result |-> result, realProgress |-> realProgress,
     selectedPlatforms |-> selectedPlatforms, thinking |-> thinking,
     returned |-> FALSE, dirty |-> FALSE]

\* every content event written under the analysis key
KeyOfAnalysisOnly(type) == "analysis"

\* the aggregate key a content event writes
KeyOf(type) ==
    CASE type = "analysis"   -> "analysis"
      [] type = "research"   -> "research"
      [] type = "linkedin"   -> "linkedin_post"
      [] type = "twitter"    -> "twitter_thread"
      [] type = "blog"       -> "blog_post"
      [] type = "hooks"      -> "linkedin_hooks"
      [] type = "broll"      -> "broll_images"
      [] type = "seo"        -> "seo_score"
      [] type = "newsletter" -> "newsletter_html"
      [] type = "carousel"   -> "carousel"
      [] type = "thumbnails" -> "thumbnails"
      [] type = "audio"      -> "audio"

\* setResult({[key]: event.data}): the aggregate replaced by the one key
SetResultAlone(s, key, data) ==
    [s EXCEPT !.result = [isNull |-> FALSE,
                          v |-> [k \in ResultKeys |-> IF k = key THEN data ELSE "undefined"]],
              !.dirty = TRUE]

\* setResult(prev => ({...prev, [key]: event.data})); spreading null gives {}
SetResult(s, key, data) ==
    [s EXCEPT !.result = [isNull |-> FALSE, v |-> [s.result.v EXCEPT ![key] = data]],
              !.dirty = TRUE]

\* updateStepStatus called from the loop
SetStatus(s, id, status) ==
    [s EXCEPT !.steps = updateStepStatus(s.steps, id, status), !.dirty = TRUE]

\* the research case leaving the analysis stage as it is
StatusUpdatesOfLateResearch(type) ==
    CASE type = "transcript" -> << <<"transcription", "completed">>, <<"analysis", "active">> >>
      [] type = "analysis"   -> << <<"analysis", "active">> >>
      [] type = "research"   -> << <<"generation", "active">> >>
      [] OTHER               -> << >>

\* the carousel case leaving the generation stage as it is
StatusUpdatesOfCarouselOnlyVisuals(type) ==
    CASE type = "transcript" -> << <<"transcription", "completed">>, <<"analysis", "active">> >>
      [] type = "analysis"   -> << <<"analysis", "active">> >>
      [] type = "research"   -> << <<"analysis", "completed">>, <<"generation", "active">> >>
      [] type = "broll"      -> << <<"features", "active">> >>
      [] type = "carousel"   -> << <<"visuals", "active">> >>
      [] type = "audio"      -> << <<"visuals", "completed">>, <<"audio", "active">> >>
      [] type = "airtable"   -> << <<"generation", "completed">>, <<"features", "completed">>,
                                   <<"storage", "completed">> >>
      [] OTHER               -> << >>

\* the calls to updateStepStatus each event type makes, in order
StatusUpdatesOf(type) ==
    CASE type = "transcript" -> << <<"transcription", "completed">>, <<"analysis", "active">> >>
      [] type = "analysis"   -> << <<"analysis", "active">> >>
      [] type = "research"   -> << <<"analysis", "completed">>, <<"generation", "active">> >>
      [] type = "broll"      -> << <<"features", "active">> >>
      [] type = "carousel"   -> << <<"generation", "completed">>, <<"visuals", "active">> >>
      [] type = "audio"      -> << <<"visuals", "completed">>, <<"audio", "active">> >>
      [] type = "airtable"   -> << <<"generation", "completed">>, <<"features", "completed">>,
                                   <<"storage", "completed">> >>
      [] OTHER               -> << >>

RECURSIVE SetStatuses(_, _)
SetStatuses(s, ups) ==
    IF ups = << >> THEN s
    ELSE SetStatuses(SetStatus(s, Head(ups)[1], Head(ups)[2]), Tail(ups))

\* the switch with a thinking_start case that also makes its step active
DispatchThinkingActivates(e, s) ==
    CASE e.type = "progress" ->
            [s EXCEPT !.realProgress =
                IF e.step \in DOMAIN s.realProgress
                THEN [s.realProgress EXCEPT ![e.step] = e.percent]
                ELSE s.realProgress]
      [] e.type = "thinking_start" ->
            SetStatus([s EXCEPT !.thinking = [on |-> TRUE, step |-> e.step,
                                              label |-> e.data, text |-> << >>]],
                      e.step, "active")
      [] e.type = "thinking" ->
            [s EXCEPT !.thinking.text = Append(s.thinking.text, e.data)]
      [] e.type = "thinking_done" ->
            [s EXCEPT !.thinking.on = FALSE]
      [] e.type \in ContentTypes ->
            SetStatuses(SetResult(s, KeyOf(e.type), e.data), StatusUpdatesOf(e.type))
      [] e.type \in {"transcript", "airtable"} ->
            SetStatuses(s, StatusUpdatesOf(e.type))
      [] e.type = "error" ->
            [s EXCEPT !.error = e.error, !.isLoading = FALSE, !.returned = TRUE]
      [] OTHER -> s

\* the switch on event.type
Dispatch(e, s) ==
    CASE e.type = "progress" ->
            [s EXCEPT !.realProgress =
                IF e.step \in DOMAIN s.realProgress
                THEN [s.realProgress EXCEPT ![e.step] = e.percent]
                ELSE s.realProgress]
      [] e.type = "thinking_start" ->
            [s EXCEPT !.thinking = [on |-> TRUE, step |-> e.step, label |-> e.data,
                                    text |-> << >>]]
      [] e.type = "thinking" ->
            [s EXCEPT !.thinking.text = Append(s.thinking.text, e.data)]
      [] e.type = "thinking_done" ->
            [s EXCEPT !.thinking.on = FALSE]
      [] e.type \in ContentTypes ->
            SetStatuses(SetResult(s, KeyOf(e.type), e.data), StatusUpdatesOf(e.type))
      [] e.type \in {"transcript", "airtable"} ->
            SetStatuses(s, StatusUpdatesOf(e.type))
      [] e.type = "error" ->
            [s EXCEPT !.error = e.error, !.isLoading = FALSE, !.returned = TRUE]
      [] OTHER -> s

\* one iteration without the inner try/catch: a line JSON.parse rejects ends
\* the run in the outer catch block
ApplyLineUncaught(line, s) ==
    IF line.type = "blank" THEN s
    ELSE IF line.type = "malformed"
        THEN [s EXCEPT !.error = "SyntaxError: Unexpected token",
                       !.steps = [i \in DOMAIN s.steps |->
                                    IF s.steps[i].status = "active"
                                    THEN [s.steps[i] EXCEPT !.status = "error"]
                                    ELSE s.steps[i]],
                       !.isLoading = FALSE, !.dirty = TRUE, !.returned = TRUE]
    ELSE Dispatch(line, s)

\* one iteration of the for loop: skip blank lines, JSON.parse inside try/catch
ApplyLine(line, s) ==
    IF line.type = "blank" THEN s
    ELSE IF line.type = "malformed" THEN s
    ELSE Dispatch(line, s)

\* the for loop with a break in the error case instead of the return
RECURSIVE ApplyLinesNoReturn(_, _)
ApplyLinesNoReturn(lines, s) ==
    IF lines = << >> THEN s
    ELSE ApplyLinesNoReturn(Tail(lines), ApplyLine(Head(lines), s))

\* the for loop over the lines of a chunk, left by the error case's return
RECURSIVE ApplyLines(_, _)
ApplyLines(lines, s) ==
    IF lines = << >> \/ s.returned THEN s
    ELSE ApplyLines(Tail(lines), ApplyLine(Head(lines), s))

\* the catch block and finally
Catch(s, msg) ==
    [s EXCEPT !.error = msg, !.steps = ErrorSteps(s.steps), !.isLoading = FALSE,
              !.dirty = TRUE]

-----------------------------------------------------------------------------
(* Displayed progress: stepsWithProgress *)

Max(a, b) == IF a >= b THEN a ELSE b
Min(a, b) == IF a <= b THEN a ELSE b

\* Math.round of a number given in tenths, as a whole number
Round(x) == (x + 5) \div 10

\* the reported value shown whenever there is one
ProgressOfReportedFirst(status, real, simulated) ==
    Round(IF status = "completed" THEN 1000
          ELSE IF status = "active" THEN (IF real > 0 THEN real ELSE simulated)
          ELSE 0)

\* the larger value shown for every stage that is not completed
ProgressOfAnyStatus(status, real, simulated) ==
    Round(IF status = "completed" THEN 1000 ELSE Max(real, simulated))

\* stepsWithProgress: the progress shown for one stage
ProgressOf(status, real, simulated) ==
    Round(IF status = "completed" THEN 1000
          ELSE IF status = "active" THEN Max(real, simulated)
          ELSE 0)

DisplayProgress(id) == ProgressOf(StatusOf(steps, id), realProgress[id], progressMap[id])

-----------------------------------------------------------------------------
(* The ramp: the effect of useMultiStepProgress.  A timer is "none" (no     *)
(* handle in intervalsRef), "live", or "dead" (cleared by the effect's      *)
(* cleanup, its handle still in intervalsRef).                              *)

\* an effect without a cleanup
RampCleanupNothing(tm) == tm

\* the cleanup returned by the effect: clearInterval on every handle
RampCleanup(tm) == [id \in DOMAIN tm |-> IF tm[id] = "live" THEN "dead" ELSE tm[id]]

\* the effect body for one stage; currentProgress is the rendered value
RampStage(status, cur, tm) ==
    IF status = "active" /\ tm = "none"
        THEN [progress |-> RampFloor, timer |-> "live", set |-> TRUE]
    ELSE IF status = "completed"
        THEN [progress |-> IF cur # 1000 THEN 1000 ELSE cur, timer |-> "none",
              set |-> cur # 1000]
    ELSE IF status = "pending"
        THEN [progress |-> IF cur # 0 THEN 0 ELSE cur, timer |-> "none",
              set |-> cur # 0]
    ELSE [progress |-> cur, timer |-> tm, set |-> FALSE]

\* one run of the effect after a render: the previous cleanup, then the body
RampEffect(st, pm, tm) ==
    LET cleared == RampCleanup(tm)
        one(id) == RampStage(StatusOf(st, id), pm[id], cleared[id])
    IN  [progressMap |-> [id \in DOMAIN pm |-> one(id).progress],
         timers      |-> [id \in DOMAIN tm |-> one(id).timer],
         scheduled   |-> \E id \in DOMAIN pm : one(id).set]

\* the interval callback without the cap
RampNextUncapped(cur) ==
    Round((IF cur = 0 THEN RampFloor ELSE cur) + RampIncrement) * 10

\* the interval callback: prev[id] || 5, plus the increment, capped, rounded
RampNext(cur) ==
    Round(Min((IF cur = 0 THEN RampFloor ELSE cur) + RampIncrement, MaxProgress)) * 10

-----------------------------------------------------------------------------
(* localStorage *)

NoStorage == [result |-> << >>, steps |-> << >>, platforms |-> << >>]

\* JSON.stringify of the aggregate: a key whose value is undefined is left out
Stringify(v) == [k \in {x \in DOMAIN v : v[x] # "undefined"} |-> v[k]]

\* JSON.parse of a stored aggregate, as the page reads it: a key that is not
\* there reads undefined
Parse(text) ==
    [k \in ResultKeys |-> IF k \in DOMAIN text THEN text[k] ELSE "undefined"]

\* a save effect that never writes
PersistEffectNever(s, st) == st

\* the save effect: runs when result, steps or selectedPlatforms changed
PersistEffect(s, st) ==
    IF s.dirty /\ ~s.result.isNull
    THEN [result |-> <<Stringify(s.result.v)>>, steps |-> <<s.steps>>,
          platforms |-> <<s.selectedPlatforms>>]
    ELSE st

\* a handler is over: React renders the state s it left and runs the effects
Commit(s, st) ==
    LET ramp == RampEffect(s.steps, progressMap, timers) IN
    /\ steps' = s.steps
    /\ isLoading' = s.isLoading
    /\ error' = s.error
    /\ result' = s.result
    /\ realProgress' = s.realProgress
    /\ selectedPlatforms' = s.selectedPlatforms
    /\ thinking' = s.thinking
    /\ storage' = PersistEffect(s, st)
    /\ progressMap' = ramp.progressMap
    /\ timers' = ramp.timers
    /\ rerender' = ramp.scheduled

-----------------------------------------------------------------------------
(* State after the Home component is mounted with an empty localStorage *)

InitEngine ==
    /\ steps = INITIAL_STEPS
    /\ isLoading = FALSE
    /\ error = "null"
    /\ result = NullResult
    /\ realProgress = [id \in StageIds |-> 0]
    /\ selectedPlatforms = {}
    /\ thinking = NoThinking
    /\ progressMap = [id \in StageIds |-> 0]
    /\ timers = [id \in StageIds |-> "none"]
    /\ rerender = FALSE
    /\ storage = NoStorage
    /\ pc = [r \in Runs |-> "idle"]
    /\ nread = [r \in Runs |-> 0]
    /\ chunk = NoChunk
    /\ currentRun = 0
    /\ aborted = [r \in Runs |-> FALSE]
    /\ resetPending = 0
    /\ ticks = 0
    /\ resetDone = FALSE

InitDecoder ==
    /\ pos = 0
    /\ pending = << >>
    /\ buffer = << >>
    /\ linesOut = << >>
    /\ streamDone = FALSE
    /\ nchunks = 0

Init == InitEngine /\ InitDecoder /\ stream = << >>

-----------------------------------------------------------------------------
(* Actions *)

\* a start that spreads the earlier aggregate under the empty structure
StartResultKept(prev) ==
    [isNull |-> FALSE,
     v |-> [k \in ResultKeys |->
              IF k \in {"linkedin_hooks", "broll_images"} THEN "[]" ELSE prev.v[k]]]

\* the aggregate handleProcessVideo sets: the empty structure, whatever the
\* aggregate was
StartResult(prev) == EmptyResult

\* handleProcessVideo up to its first await (the form's button is disabled
\* while isLoading)
Start(platforms) ==
    /\ ~isLoading
    /\ currentRun < MaxRuns
    /\ LET r == currentRun + 1
           s == [UI EXCEPT !.isLoading = TRUE,
                           !.error = "null",
                           !.steps = updateStepStatus(SmartSteps(platforms),
                                                      "transcription", "active"),
                           !.selectedPlatforms = platforms,
                           !.result = StartResult(result),
                           !.dirty = TRUE]
       IN  /\ Commit(s, [storage EXCEPT !.result = << >>, !.steps = << >>])
           /\ currentRun' = r
           /\ pc' = [pc EXCEPT ![r] = "fetch"]
    /\ chunk' = NoChunk
    /\ resetDone' = FALSE
    /\ UNCHANGED <<nread, aborted, resetPending, ticks, decoderVars>>

\* api.processVideoStream resolves with a response that has a body
FetchOk(r) ==
    /\ pc[r] = "fetch"
    /\ pc' = [pc EXCEPT ![r] = "read"]
    /\ chunk' = NoChunk
    /\ UNCHANGED <<uiVars, progressMap, timers, rerender, storage, nread,
                   currentRun, aborted, resetPending, ticks, resetDone,
                   decoderVars>>

\* the request is rejected, answers with a non-success status, or has no body
FetchFail(r, msg) ==
    /\ pc[r] = "fetch"
    /\ Commit(Catch(UI, msg), storage)
    /\ pc' = [pc EXCEPT ![r] = "failed"]
    /\ chunk' = NoChunk
    /\ UNCHANGED <<nread, currentRun, aborted, resetPending, ticks,
                   resetDone, decoderVars>>

\* reader.read() resolves with a chunk whose complete lines are `lines`
ReadLines(r, lines) ==
    /\ pc[r] = "read"
    /\ LET out == ApplyLines(lines, UI) IN
        /\ Commit(out, storage)
        /\ pc' = [pc EXCEPT ![r] = IF out.returned THEN "returned" ELSE "read"]
    /\ chunk' = [run |-> r, lines |-> lines]
    /\ nread' = [nread EXCEPT ![r] = nread[r] + Len(lines)]
    /\ UNCHANGED <<currentRun, aborted, resetPending, ticks, resetDone,
                   decoderVars>>

\* reader.read() resolves with done: mark all stages completed
ReadDone(r) ==
    /\ pc[r] = "read"
    /\ Commit([UI EXCEPT !.steps = CompleteSteps(steps), !.isLoading = FALSE,
                         !.dirty = TRUE], storage)
    /\ pc' = [pc EXCEPT ![r] = "done"]
    /\ chunk' = NoChunk
    /\ UNCHANGED <<nread, currentRun, aborted, resetPending, ticks,
                   resetDone, decoderVars>>

\* reader.read() rejects
ReadFail(r, msg) ==
    /\ pc[r] = "read"
    /\ Commit(Catch(UI, msg), storage)
    /\ pc' = [pc EXCEPT ![r] = "failed"]
    /\ chunk' = NoChunk
    /\ UNCHANGED <<nread, currentRun, aborted, resetPending, ticks,
                   resetDone, decoderVars>>

\* handleStopPipeline (the Stop button is shown while isLoading)
Stop ==
    /\ isLoading
    /\ aborted' = IF currentRun \in Runs THEN [aborted EXCEPT ![currentRun] = TRUE]
                  ELSE aborted
    /\ Commit([UI EXCEPT !.isLoading = FALSE, !.thinking = NoThinking,
                         !.error = StopMessage, !.steps = StopSteps(steps),
                         !.dirty = TRUE], storage)
    /\ chunk' = NoChunk
    /\ UNCHANGED <<pc, nread, currentRun, resetPending, ticks, resetDone,
                   decoderVars>>

\* resetSteps resetting the stage list only
ResetUIStepsOnly(s) ==
    [s EXCEPT !.steps = INITIAL_STEPS, !.isLoading = FALSE, !.dirty = TRUE]

\* resetSteps, step 3: the setters called after the await
ResetUI(s) ==
    [s EXCEPT !.steps = INITIAL_STEPS, !.error = "null", !.result = NullResult,
              !.isLoading = FALSE, !.selectedPlatforms = {},
              !.thinking = NoThinking, !.dirty = TRUE]

\* resetSteps up to its await (the New button is disabled while isLoading)
ResetBegin ==
    /\ ~isLoading
    /\ resetPending < MaxPendingResets
    /\ storage' = NoStorage
    /\ resetPending' = resetPending + 1
    /\ chunk' = NoChunk
    /\ UNCHANGED <<uiVars, progressMap, timers, rerender, pc, nread,
                   currentRun, aborted, ticks, resetDone, decoderVars>>

\* resetSteps after the reset-project request resolved or was rejected
ResetFinish ==
    /\ resetPending > 0
    /\ resetPending' = resetPending - 1
    /\ Commit(ResetUI(UI), storage)
    /\ chunk' = NoChunk
    /\ resetDone' = TRUE
    /\ UNCHANGED <<pc, nread, currentRun, aborted, ticks, decoderVars>>

\* the interval callback of stage id fires
Tick(id) ==
    /\ timers[id] = "live"
    /\ ticks < MaxTicks
    /\ ticks' = ticks + 1
    /\ progressMap' = [progressMap EXCEPT ![id] = RampNext(progressMap[id])]
    /\ rerender' = TRUE
    /\ chunk' = NoChunk
    /\ UNCHANGED <<uiVars, timers, storage, pc, nread, currentRun, aborted,
                   resetPending, resetDone, decoderVars>>

\* the interval callback of stage id fires, as often as the timer lives; at
\* the ceiling the callback leaves the value as it is
TickOn(id) ==
    /\ timers[id] = "live"
    /\ progressMap[id] < MaxProgress
    /\ progressMap' = [progressMap EXCEPT ![id] = RampNext(progressMap[id])]
    /\ rerender' = TRUE
    /\ chunk' = NoChunk
    /\ UNCHANGED <<uiVars, timers, storage, pc, nread, currentRun, aborted,
                   resetPending, ticks, resetDone, decoderVars>>

\* the render scheduled by setProgressMap: the ramp effect runs again
Rerender ==
    /\ rerender
    /\ LET ramp == RampEffect(steps, progressMap, timers) IN
        /\ progressMap' = ramp.progressMap
        /\ timers' = ramp.timers
        /\ rerender' = ramp.scheduled
    /\ chunk' = NoChunk
    /\ UNCHANGED <<uiVars, storage, pc, nread, currentRun, aborted,
                   resetPending, ticks, resetDone, decoderVars>>

-----------------------------------------------------------------------------
(* The frame decoder: the read loop's TextDecoder, buffer and split.        *)
(* Bytes: "a" an ASCII letter, "LF" the newline, "C3" the lead byte and     *)
(* "A9" the continuation byte of a two-byte character.  Characters: "a",    *)
(* "LF", "e'" (the two-byte character) and "FFFD" (the replacement          *)
(* character).  A text is a sequence of characters.                         *)

Bytes == {"a", "LF", "C3", "A9"}

Streams == UNION {[1..n -> Bytes] : n \in 0..MaxStreamLen}

\* the UTF-8 decoder behind decoder.decode(value, {stream: true}): the text
\* decoded from the bytes after the incomplete sequence pend, and the
\* incomplete sequence left at the end of the chunk
RECURSIVE Utf8Decode(_, _, _)
Utf8Decode(bytes, pend, text) ==
    IF bytes = << >> THEN [text |-> text, pending |-> pend]
    ELSE LET b == Head(bytes) IN
         IF pend # << >> THEN
            IF b = "A9" THEN Utf8Decode(Tail(bytes), << >>, Append(text, "e'"))
            ELSE Utf8Decode(bytes, << >>, Append(text, "FFFD"))
         ELSE IF b = "C3" THEN Utf8Decode(Tail(bytes), <<b>>, text)
         ELSE IF b = "A9" THEN Utf8Decode(Tail(bytes), << >>, Append(text, "FFFD"))
         ELSE Utf8Decode(Tail(bytes), << >>, Append(text, b))

\* decoder.decode(value, {stream: true})
TextDecode(bytes, pend) == Utf8Decode(bytes, pend, << >>)

\* buffer.split("\n"): the pieces between newlines, at least one
RECURSIVE Split(_, _, _)
Split(text, piece, pieces) ==
    IF text = << >> THEN Append(pieces, piece)
    ELSE IF Head(text) = "LF" THEN Split(Tail(text), << >>, Append(pieces, piece))
    ELSE Split(Tail(text), Append(piece, Head(text)), pieces)

\* the buffer emptied after every chunk
RemainderDropped(pieces) == << >>

\* lines.pop() || "": the piece after the last newline stays in the buffer
Remainder(pieces) == pieces[Len(pieces)]

\* the lines left in `lines` after the pop
CompleteLines(pieces) == SubSeq(pieces, 1, Len(pieces) - 1)

\* one pass of the read loop on a chunk: decode, append, split, pop
DecodeChunk(d, value) ==
    LET dec    == TextDecode(value, d.pending)
        pieces == Split(d.buffer \o dec.text, << >>, << >>)
    IN  [pending  |-> dec.pending,
         buffer   |-> Remainder(pieces),
         linesOut |-> d.linesOut \o CompleteLines(pieces)]

DecoderStart == [pending |-> << >>, buffer |-> << >>, linesOut |-> << >>]

\* reader.read() resolves with the next n bytes of the stream
DecoderRead(n) ==
    /\ ~streamDone
    /\ pos + n <= Len(stream)
    /\ LET d == DecodeChunk([pending |-> pending, buffer |-> buffer,
                             linesOut |-> linesOut],
                            SubSeq(stream, pos + 1, pos + n))
       IN  /\ pending' = d.pending
           /\ buffer' = d.buffer
           /\ linesOut' = d.linesOut
    /\ pos' = pos + n
    /\ nchunks' = nchunks + 1
    /\ UNCHANGED <<stream, streamDone, engineVars>>

\* the end of the stream handing a non-empty buffer to the parser as a last line
DecoderDoneFlush ==
    /\ ~streamDone
    /\ pos = Len(stream)
    /\ streamDone' = TRUE
    /\ linesOut' = IF buffer = << >> THEN linesOut ELSE Append(linesOut, buffer)
    /\ buffer' = << >>
    /\ UNCHANGED <<stream, pos, pending, nchunks, engineVars>>

\* reader.read() resolves with done: the loop is left, the buffer is dropped
DecoderDone ==
    /\ ~streamDone
    /\ pos = Len(stream)
    /\ streamDone' = TRUE
    /\ UNCHANGED <<stream, pos, pending, buffer, linesOut, nchunks,
                   engineVars>>

\* One run and its stream, over the stage-machine lines, with stop and the
\* transport failures
Next ==
    \/ \E platforms \in RequestChoices : currentRun < 1 /\ Start(platforms)
    \/ \E r \in Runs : FetchOk(r)
    \/ \E r \in Runs, msg \in FetchErrors : FetchFail(r, msg)
    \/ \E r \in Runs : \E lines \in ChunksOf(CoreLinesOf(r), MaxLines - nread[r]) :
            ReadLines(r, lines)
    \/ \E r \in Runs : ReadDone(r)
    \/ \E r \in Runs, msg \in ReadErrors : ReadFail(r, msg)
    \/ Stop
    \/ Rerender

Spec == Init /\ [][Next]_vars

\* One run and its stream, over the lines that move the progress bars, with the
\* ramp's ticks
NextRamp ==
    \/ \E platforms \in RequestChoices : currentRun < 1 /\ Start(platforms)
    \/ \E r \in Runs : FetchOk(r)
    \/ \E r \in Runs : \E lines \in ChunksOf(RampLinesOf(r), MaxLines - nread[r]) :
            ReadLines(r, lines)
    \/ \E r \in Runs : ReadDone(r)
    \/ Stop
    \/ \E id \in StageIds : Tick(id)
    \/ Rerender

SpecRamp == Init /\ [][NextRamp]_vars

\* The frame decoder fed one response body, cut into chunks in every way
NextDecoder ==
    \/ \E n \in 1..MaxStreamLen : DecoderRead(n)
    \/ DecoderDone

InitStreams == InitEngine /\ InitDecoder /\ stream \in Streams

SpecDecoder == InitStreams /\ [][NextDecoder]_vars

\* The lines of the streams when the behaviour is about resetSteps
ResetTypes == {"transcript", "analysis", "error"}
ResetLinesOf(r) == {l \in LinesOf(r) : l.type \in ResetTypes}

\* One run, ended in every way, and resetSteps with its await
NextReset ==
    \/ \E platforms \in RequestChoices : currentRun < 1 /\ Start(platforms)
    \/ \E r \in Runs : FetchOk(r)
    \/ \E r \in Runs : \E lines \in ChunksOf(ResetLinesOf(r), MaxLines - nread[r]) :
            ReadLines(r, lines)
    \/ \E r \in Runs : ReadDone(r)
    \/ \E r \in Runs, msg \in ReadErrors : ReadFail(r, msg)
    \/ Stop
    \/ ResetBegin
    \/ ResetFinish
    \/ Rerender

SpecReset == Init /\ [][NextReset]_vars

\* The start of a run for every set of requested outputs, up to the answer to
\* the request
NextPlan ==
    \/ \E platforms \in SUBSET PLATFORMS : currentRun < 1 /\ Start(platforms)
    \/ \E r \in Runs : FetchOk(r)
    \/ \E r \in Runs, msg \in FetchErrors : FetchFail(r, msg)
    \/ Stop
    \/ Rerender

SpecPlan == Init /\ [][NextPlan]_vars

\* The lines of the streams when the behaviour is about the ramp's timers
TimerTypes == {"transcript", "error"}
TimerLinesOf(r) == {l \in LinesOf(r) : l.type \in TimerTypes}

\* One run ended in every way, resetSteps, and the ramp's ticks
NextTimers ==
    \/ \E platforms \in RequestChoices : currentRun < 1 /\ Start(platforms)
    \/ \E r \in Runs : FetchOk(r)
    \/ \E r \in Runs, msg \in FetchErrors : FetchFail(r, msg)
    \/ \E r \in Runs : \E lines \in ChunksOf(TimerLinesOf(r), MaxLines - nread[r]) :
            ReadLines(r, lines)
    \/ \E r \in Runs : ReadDone(r)
    \/ \E r \in Runs, msg \in ReadErrors : ReadFail(r, msg)
    \/ Stop
    \/ ResetBegin
    \/ ResetFinish
    \/ \E id \in StageIds : Tick(id)
    \/ Rerender

SpecTimers == Init /\ [][NextTimers]_vars

\* The lines of the streams when the behaviour is about successive runs
RunsTypes == {"transcript", "analysis"}
RunsLinesOf(r) == {l \in LinesOf(r) : l.type \in RunsTypes}

\* Successive runs, each stopped or read to the end of its stream
NextRuns ==
    \/ \E platforms \in RequestChoices : Start(platforms)
    \/ \E r \in Runs : FetchOk(r)
    \/ \E r \in Runs : \E lines \in ChunksOf(RunsLinesOf(r), MaxLines - nread[r]) :
            ReadLines(r, lines)
    \/ \E r \in Runs : ReadDone(r)
    \/ Stop
    \/ Rerender

SpecRuns == Init /\ [][NextRuns]_vars

\* The lines of the streams when the behaviour is about the ramp advancing
LiveTypes == {"transcript"}
LiveLinesOf(r) == {l \in LinesOf(r) : l.type \in LiveTypes}

\* One run with the ramp ticking as long as its timers live.  A scheduled
\* render takes place, and the callback of a live timer fires.
NextRampLive ==
    \/ \E platforms \in RequestChoices : currentRun < 1 /\ Start(platforms)
    \/ \E r \in Runs : FetchOk(r)
    \/ \E r \in Runs : \E lines \in ChunksOf(LiveLinesOf(r), MaxLines - nread[r]) :
            ReadLines(r, lines)
    \/ Stop
    \/ \E id \in StageIds : TickOn(id)
    \/ Rerender

SpecRampLive ==
    /\ Init
    /\ [][NextRampLive]_vars
    /\ WF_vars(Rerender)
    /\ \A id \in StageIds : WF_vars(TickOn(id))

\* The lines of the streams when the behaviour is about the content events
\* of the later stages
OutputTypes == {"carousel", "audio", "broll", "thumbnails"}
OutputLinesOf(r) == {l \in LinesOf(r) : l.type \in OutputTypes}

\* One run and its stream, over the content events of the later stages
NextOutputs ==
    \/ \E platforms \in RequestChoices : currentRun < 1 /\ Start(platforms)
    \/ \E r \in Runs : FetchOk(r)
    \/ \E r \in Runs : \E lines \in ChunksOf(OutputLinesOf(r), MaxLines - nread[r]) :
            ReadLines(r, lines)
    \/ \E r \in Runs : ReadDone(r)
    \/ Stop
    \/ Rerender

SpecOutputs == Init /\ [][NextOutputs]_vars

\* The lines of the streams when the behaviour is about what a new run
\* inherits from the one before
RestartTypes == {"analysis"}
RestartLinesOf(r) == {l \in LinesOf(r) : l.type \in RestartTypes}

\* The requested output sets of successive runs: one that skips stages and
\* one that skips none
RestartChoices == { {"twitter"}, PLATFORMS }

\* Successive runs, each read to the end of its stream or stopped, the next
\* one started at any moment the form allows
NextRestart ==
    \/ \E platforms \in RestartChoices : Start(platforms)
    \/ \E r \in Runs : FetchOk(r)
    \/ \E r \in Runs : \E lines \in ChunksOf(RestartLinesOf(r), MaxLines - nread[r]) :
            ReadLines(r, lines)
    \/ \E r \in Runs : ReadDone(r)
    \/ Stop
    \/ Rerender

SpecRestart == Init /\ [][NextRestart]_vars

-----------------------------------------------------------------------------
(* Properties *)

\* a step of the run in flight: not a new startRun, not the end of a resetRun
WithinRun == currentRun' = currentRun /\ resetPending' >= resetPending

\* the step read a chunk of run r's stream
ReadBy(r) == chunk'.run = r

\* C1: after stopRun was invoked during a run, no chunk of that run's stream
\* changes the stage statuses, the aggregate, the reported progress or the
\* surfaced error, and the run's end-of-stream completion is not executed.
C1_StopEndsConsumer ==
    [][\A r \in Runs : aborted[r] =>
          /\ ReadBy(r) => /\ steps' = steps
                          /\ result' = result
                          /\ realProgress' = realProgress
                          /\ error' = error
          /\ ~(pc[r] = "read" /\ pc'[r] = "done")]_vars

\* C2: within a run a stage whose status is skipped keeps status skipped,
\* whatever event, end of stream, transport failure or stopRun happens.
C2_SkippedStaysSkipped ==
    [][WithinRun =>
          \A i \in DOMAIN steps :
              steps[i].status = "skipped" => steps'[i].status = "skipped"]_vars

\* C3: within a run a stage that is completed or error never becomes pending
\* or active again.
C3_NoRegression ==
    [][WithinRun =>
          \A i \in DOMAIN steps :
              steps[i].status \in {"completed", "error"}
                  => steps'[i].status \notin {"pending", "active"}]_vars

\* the step read a chunk made of progress events only
ReadsProgressOnly ==
    /\ chunk'.run # 0
    /\ \A k \in DOMAIN chunk'.lines : chunk'.lines[k].type = "progress"

\* C4: applying progress events never decreases the displayProgress of any
\* stage, whatever the simulated value and the earlier reported value are.
C4_ProgressEventNeverLowersDisplay ==
    [][ReadsProgressOnly =>
          \A id \in StageIds : DisplayProgress(id)' >= DisplayProgress(id)]_vars

\* the lines of a chunk before its first error event
RECURSIVE BeforeError(_)
BeforeError(lines) ==
    IF lines = << >> \/ Head(lines).type = "error" THEN << >>
    ELSE <<Head(lines)>> \o BeforeError(Tail(lines))

\* the error event a chunk that ended the run holds
FirstError(lines) == lines[Len(BeforeError(lines)) + 1]

\* the step applied an error event of run r's stream
ErrorEventBy(r) == pc[r] = "read" /\ pc'[r] = "returned"

\* C5: when an error event is applied, every stage active at that moment gets
\* status error.
C5_ErrorEventMarksActiveStages ==
    [][\A r \in Runs : ErrorEventBy(r) =>
          LET at == ApplyLines(BeforeError(chunk'.lines), UI) IN
          \A i \in DOMAIN steps :
              at.steps[i].status = "active" => steps'[i].status = "error"]_vars

\* C6: when an error event is applied the surfaced error is the event's error
\* field, the lines after it in the chunk are not applied, the run leaves the
\* loading state; afterwards the run reads no further chunk and never runs
\* the end-of-stream completion.
C6_ErrorEventEndsRun ==
    [][\A r \in Runs :
          /\ ErrorEventBy(r) =>
                LET at == ApplyLines(BeforeError(chunk'.lines), UI) IN
                /\ error' = FirstError(chunk'.lines).error
                /\ isLoading' = FALSE
                /\ steps' = at.steps
                /\ result' = at.result
                /\ realProgress' = at.realProgress
                /\ thinking' = at.thinking
          /\ pc[r] = "returned" =>
                /\ pc'[r] = "returned"
                /\ nread'[r] = nread[r]
                /\ ~ReadBy(r)]_vars

\* C6 witness: an error event was applied with one more line behind it in the
\* same chunk
C6_Witness ==
    /\ chunk.run = 1
    /\ Len(chunk.lines) = 2
    /\ chunk.lines[1].type = "error"
    /\ chunk.lines[2].type = "transcript"
    /\ pc[1] = "returned"
    /\ error = "rate limited"
    /\ ~isLoading
    /\ StatusOf(steps, "transcription") = "active"

\* C7: whatever the cutting of the bytes read so far into chunks, the lines
\* handed to the parser, the unterminated remainder and the decoder's
\* incomplete sequence are those of reading the same bytes as one chunk.
C7_SplitInvariance ==
    [pending |-> pending, buffer |-> buffer, linesOut |-> linesOut]
        = DecodeChunk(DecoderStart, SubSeq(stream, 1, pos))

\* C7 witness: a body read one byte per chunk, cutting a line and a two-byte
\* character, with a remainder left at the end
C7_Witness ==
    /\ stream = <<"a", "C3", "A9", "LF", "a">>
    /\ nchunks = 5
    /\ streamDone
    /\ linesOut = << <<"a", "e'">> >>
    /\ buffer = <<"a">>

IsParseable(line) == line.type # "malformed"

\* C8: the state after a chunk is the state after applying only its parseable
\* lines, in order: a malformed line changes nothing, does not end the run
\* and does not set the surfaced error.
C8_MalformedLinesSkipped ==
    [][chunk'.run # 0 =>
          LET out == ApplyLines(SelectSeq(chunk'.lines, IsParseable), UI) IN
          /\ steps' = out.steps
          /\ result' = out.result
          /\ realProgress' = out.realProgress
          /\ thinking' = out.thinking
          /\ error' = out.error
          /\ isLoading' = out.isLoading
          /\ pc'[chunk'.run] = IF out.returned THEN "returned" ELSE "read"]_vars

\* C8 witness: a malformed line was read in front of a transcript event, which
\* was applied, and the run goes on without an error
C8_Witness ==
    /\ chunk.run = 1
    /\ Len(chunk.lines) = 2
    /\ chunk.lines[1].type = "malformed"
    /\ chunk.lines[2].type = "transcript"
    /\ pc[1] = "read"
    /\ isLoading
    /\ error = "null"
    /\ StatusOf(steps, "transcription") = "completed"
    /\ StatusOf(steps, "analysis") = "active"

\* the step is a call of handleStopPipeline
StopStep == aborted' # aborted

\* C9: stopRun sets every active stage to pending and leaves the other stages
\* unchanged, the displayed progress of the demoted stages is 0, the thinking
\* display is cleared and the surfaced error is the user-stop message.
C9_StopDemotesActiveStages ==
    [][StopStep =>
          /\ \A i \in DOMAIN steps :
                /\ steps'[i].id = steps[i].id
                /\ steps'[i].status =
                      IF steps[i].status = "active" THEN "pending" ELSE steps[i].status
          /\ \A id \in StageIds :
                StatusOf(steps, id) = "active" => DisplayProgress(id)' = 0
          /\ thinking' = NoThinking
          /\ ~isLoading'
          /\ error' = "Pipeline stopped by user"]_vars

\* C9 witness: the run was stopped while analysis was active (transcription
\* being completed): analysis is pending again and shows 0
C9_Witness ==
    /\ aborted[1]
    /\ error = "Pipeline stopped by user"
    /\ StatusOf(steps, "transcription") = "completed"
    /\ StatusOf(steps, "analysis") = "pending"
    /\ DisplayProgress("analysis") = 0
    /\ thinking = NoThinking
    /\ chunk = NoChunk

\* C10: for a stage that is active and stays active or becomes completed, the
\* displayProgress never decreases, and it is 100 once the stage is completed.
C10_DisplayNeverDecreases ==
    [][WithinRun =>
          \A id \in StageIds :
              (StatusOf(steps, id) = "active"
                  /\ StatusOf(steps, id)' \in {"active", "completed"})
              => /\ DisplayProgress(id)' >= DisplayProgress(id)
                 /\ StatusOf(steps, id)' = "completed" => DisplayProgress(id)' = 100]_vars

\* the step is the end of a resetSteps call
ResetStep == resetPending' < resetPending

\* C11: right after resetSteps completes, whatever the state before, every
\* stage is pending (the stage list is INITIAL_STEPS), the aggregate is null,
\* the surfaced error is cleared and the thinking display is cleared.
C11_ResetRestoresInitialState ==
    [][ResetStep =>
          /\ steps' = INITIAL_STEPS
          /\ \A i \in DOMAIN steps' : steps'[i].status = "pending"
          /\ result' = NullResult
          /\ error' = "null"
          /\ thinking' = NoThinking]_vars

\* C11 witness: resetSteps completed after a run that had marked every stage
\* completed and had set the analysis in the aggregate
C11_Witness ==
    /\ resetDone
    /\ pc[1] = "done"
    /\ nread[1] >= 2
    /\ steps = INITIAL_STEPS
    /\ result = NullResult
    /\ error = "null"
    /\ chunk = NoChunk

\* C12: once resetSteps has completed no persisted snapshot exists, and none
\* is written until the next handleProcessVideo call.
C12_NoSnapshotAfterReset ==
    resetDone => storage = NoStorage

\* the stages of a stage list that have the given status
StagesWith(st, status) == {st[i].id : i \in {j \in DOMAIN st : st[j].status = status}}

\* C13: the plan built by handleProcessVideo for the requested outputs has
\* transcription, analysis and storage pending, generation pending iff one of
\* twitter, blog, linkedin, newsletter is requested, visuals pending iff
\* visuals is requested, audio pending iff audio is requested, and every other
\* stage skipped; the run starts on that plan with transcription made active.
C13_PlanOfRequestedOutputs ==
    (isLoading /\ currentRun \in Runs /\ pc[currentRun] = "fetch") =>
        LET plan == SmartSteps(selectedPlatforms)
            wanted ==
                {"transcription", "analysis", "storage"}
                \cup (IF selectedPlatforms
                            \cap {"twitter", "blog", "linkedin", "newsletter"} # {}
                      THEN {"generation"} ELSE {})
                \cup (selectedPlatforms \cap {"visuals", "audio"})
        IN  /\ StagesWith(plan, "pending") = wanted
            /\ StagesWith(plan, "skipped") = StageIds \ wanted
            /\ [i \in DOMAIN plan |-> plan[i].id]
                    = [i \in DOMAIN INITIAL_STEPS |-> INITIAL_STEPS[i].id]
            /\ steps = updateStepStatus(plan, "transcription", "active")

\* C13 witness: a run started for {twitter}: generation and storage pending,
\* visuals and audio skipped
C13_Witness ==
    /\ isLoading
    /\ pc[1] = "fetch"
    /\ selectedPlatforms = {"twitter"}
    /\ StagesWith(SmartSteps(selectedPlatforms), "pending")
            = {"transcription", "analysis", "generation", "storage"}
    /\ StagesWith(steps, "pending") = {"analysis", "generation", "storage"}
    /\ StagesWith(steps, "skipped") = {"visuals", "audio"}
    /\ StatusOf(steps, "transcription") = "active"

\* run r has read nothing yet from its stream and was not stopped
FreshRun(r) ==
    /\ currentRun = r
    /\ pc[r] = "read"
    /\ nread[r] = 0
    /\ isLoading
    /\ ~aborted[r]

\* the events of the scenario: transcript, analysis, research of run r
ScenarioB(r) ==
    << Line("transcript", "", 0, "", ""),
       Line("analysis", "", 0, DataOf(r), ""),
       Line("research", "", 0, DataOf(r), "") >>

\* C14: from a fresh run, after transcript, analysis and research are applied
\* in that order (in one chunk or one per chunk), transcription and analysis
\* are completed, generation is active, and the aggregate keys analysis and
\* research hold the data of the events.
C14_TranscriptAnalysisResearch ==
    \A r \in Runs : FreshRun(r) =>
        LET e     == ScenarioB(r)
            whole == ApplyLines(e, UI)
            each  == ApplyLines(<<e[3]>>, ApplyLines(<<e[2]>>, ApplyLines(<<e[1]>>, UI)))
        IN  /\ whole = each
            /\ StatusOf(whole.steps, "transcription") = "completed"
            /\ StatusOf(whole.steps, "analysis") = "completed"
            /\ StatusOf(whole.steps, "generation") = "active"
            /\ whole.result.v["analysis"] = e[2].data
            /\ whole.result.v["research"] = e[3].data
            /\ ~whole.result.isNull
            /\ ~whole.returned
            /\ whole.isLoading

\* C14 witness: the run read transcript and analysis in one chunk and then
\* research: the stage list and the aggregate are those of the scenario
C14_Witness ==
    /\ pc[1] = "read"
    /\ nread[1] = 3
    /\ chunk = [run |-> 1, lines |-> <<ScenarioB(1)[3]>>]
    /\ StatusOf(steps, "transcription") = "completed"
    /\ StatusOf(steps, "analysis") = "completed"
    /\ StatusOf(steps, "generation") = "active"
    /\ result.v["analysis"] = "d1"
    /\ result.v["research"] = "d1"
    /\ thinking = NoThinking

\* C15: an active stage shows max(simulated, reported) rounded to a whole
\* number; after a progress event whose percent is below the simulated value
\* it shows the simulated value.
C15_DisplayIsRoundedMax ==
    [][\A id \in StageIds : StatusOf(steps, id)' = "active" =>
          LET real == realProgress'[id]
              simulated == progressMap'[id]
          IN  /\ DisplayProgress(id)'
                    = ((IF real >= simulated THEN real ELSE simulated) + 5) \div 10
              /\ (ReadsProgressOnly /\ real < simulated)
                    => DisplayProgress(id)' = (simulated + 5) \div 10]_vars

\* C15 witness: transcription is active with the ramp at its floor 5, and a
\* progress event reporting 2.4 was just applied: 5 is shown
C15_Witness ==
    /\ StatusOf(steps, "transcription") = "active"
    /\ chunk.run = 1
    /\ chunk.lines = <<Line("progress", "transcription", 24, "", "")>>
    /\ realProgress["transcription"] = 24
    /\ progressMap["transcription"] = 50
    /\ DisplayProgress("transcription") = 5

\* an aggregate key holds the data of a content event
IsSet(r, k) == ~r.isNull /\ r.v[k] \notin {"undefined", "[]"}

\* the chunk just read holds a content event that writes data under key k
WrittenBy(lines, k, data) ==
    \E n \in DOMAIN lines :
        /\ lines[n].type \in ContentTypes
        /\ KeyOf(lines[n].type) = k
        /\ lines[n].data = data

\* C16: within a run an aggregate key that was set by a content event is never
\* cleared by a later event, stop, failure or end of stream, and a key changes
\* only to the data of an event of its kind in the chunk just read.
C16_AggregateKeysNeverCleared ==
    [][WithinRun =>
          \A k \in ResultKeys :
              /\ IsSet(result, k) => IsSet(result', k)
              /\ (~result.isNull /\ result'.v[k] # result.v[k])
                    => /\ chunk'.run # 0
                       /\ WrittenBy(chunk'.lines, k, result'.v[k])]_vars

\* C16 witness: analysis and research were set, and the stream ended: both
\* keys still hold the data
C16_Witness ==
    /\ pc[1] = "done"
    /\ nread[1] >= 2
    /\ IsSet(result, "analysis")
    /\ IsSet(result, "research")
    /\ ~IsSet(result, "carousel")
    /\ \A i \in DOMAIN steps : steps[i].status = "completed"

\* the step is a transport failure of run r: the request or a read rejected
FailureOf(r) == pc[r] \in {"fetch", "read"} /\ pc'[r] = "failed"

\* C17: on a transport failure every active stage gets status error, every
\* other stage keeps its status, the failure's message is the surfaced error
\* and the run leaves the loading state.
C17_TransportFailureMarksActiveStages ==
    [][\A r \in Runs : FailureOf(r) =>
          /\ \A i \in DOMAIN steps :
                /\ steps'[i].id = steps[i].id
                /\ steps'[i].status =
                      IF steps[i].status = "active" THEN "error"
                      ELSE steps[i].status
          /\ error' \in IF pc[r] = "fetch" THEN FetchErrors ELSE ReadErrors
          /\ ~isLoading'
          /\ result' = result]_vars

\* C17 witness: a read was rejected after the transcript: analysis, active at
\* that moment, is error, transcription is still completed
C17_Witness ==
    /\ pc[1] = "failed"
    /\ nread[1] >= 1
    /\ error \in ReadErrors
    /\ ~isLoading
    /\ StatusOf(steps, "transcription") = "completed"
    /\ StatusOf(steps, "analysis") = "error"
    /\ StagesWith(steps, "active") = {}
    /\ StagesWith(steps, "skipped") = {"visuals", "audio"}

ConsumerStep(r) == ReadBy(r) \/ (pc[r] = "read" /\ pc'[r] \in {"done", "failed"})

\* C19: once a later handleProcessVideo call has begun, no step of an earlier
\* run's consumer changes the stage statuses, the aggregate or the loading
\* flag.
C19_OneConsumerAtATime ==
    [][\A r \in Runs : (r < currentRun /\ ConsumerStep(r)) =>
          /\ steps' = steps
          /\ result' = result
          /\ isLoading' = isLoading]_vars

\* C20: a stage that is active sees its simulated progress reach the ceiling,
\* unless it stops being active before.
C20_RampReachesCeiling ==
    \A id \in StageIds :
        (StatusOf(steps, id) = "active")
            ~> (progressMap[id] = MaxProgress \/ StatusOf(steps, id) # "active")

C22_StopAndResetClearBothChannels ==
    [][/\ StopStep =>
            \A id \in StageIds : StatusOf(steps, id) = "active" =>
                /\ realProgress'[id] = 0
                /\ progressMap'[id] = 0
       /\ ResetStep =>
            \A id \in StageIds :
                /\ realProgress'[id] = 0
                /\ progressMap'[id] = 0]_vars

\* the lines of a chunk in front of its last line
Front(lines) == SubSeq(lines, 1, Len(lines) - 1)

\* the chunk just read ends with an event of the given type, and that event was
\* applied (no error event in front of it)
EndsWith(type) ==
    /\ chunk'.run # 0
    /\ chunk'.lines[Len(chunk'.lines)].type = type
    /\ ~ApplyLines(Front(chunk'.lines), UI).returned

\* C23: applying an airtable event sets every stage that is active at that
\* moment to completed.
C23_AirtableCompletesActiveStages ==
    [][EndsWith("airtable") =>
          LET before == ApplyLines(Front(chunk'.lines), UI) IN
          \A i \in DOMAIN steps :
              before.steps[i].status = "active" => steps'[i].status = "completed"]_vars

\* C24: within a run the reported progress of a stage never becomes lower
\* than a value stored earlier.
C24_ReportedProgressMonotonic ==
    [][WithinRun =>
          \A id \in StageIds : realProgress'[id] >= realProgress[id]]_vars

\* the step applies at most one event, or none (stop, failure, end of stream)
OneEventStep == Len(chunk'.lines) <= 1

\* C25: within a run a stage becomes completed only from active, whether by
\* an event or at the end of the stream.
C25_CompletedOnlyFromActive ==
    [][(WithinRun /\ OneEventStep) =>
          \A i \in DOMAIN steps :
              (steps'[i].status = "completed" /\ steps[i].status # "completed")
                  => steps[i].status = "active"]_vars

\* the aggregate key of each content event
KeyTable ==
    [analysis |-> "analysis", research |-> "research", linkedin |-> "linkedin_post",
     twitter |-> "twitter_thread", blog |-> "blog_post", hooks |-> "linkedin_hooks",
     broll |-> "broll_images", seo |-> "seo_score", newsletter |-> "newsletter_html",
     carousel |-> "carousel", thumbnails |-> "thumbnails", audio |-> "audio"]

\* a content event carrying fresh data
ContentEvent(type) == Line(type, "", 0, "fresh", "")

\* C26: in every state, applying a content event stores its data under its
\* aggregate key and leaves the other keys as they are, whatever the status
\* of the owning stage.
C26_ContentAlwaysStored ==
    \A type \in ContentTypes :
        LET out == ApplyLines(<<ContentEvent(type)>>, UI) IN
        /\ DOMAIN KeyTable = ContentTypes
        /\ ~out.result.isNull
        /\ out.result.v[KeyTable[type]] = "fresh"
        /\ \A k \in ResultKeys \ {KeyTable[type]} : out.result.v[k] = result.v[k]

\* C26 witness: a carousel event was stored while visuals, its stage, was
\* skipped in the plan, after an analysis event stored while analysis was
\* still pending
C26_Witness ==
    /\ selectedPlatforms = {"twitter"}
    /\ chunk.run = 1
    /\ chunk.lines = <<Line("analysis", "", 0, "d1", ""), Line("carousel", "", 0, "d1", "")>>
    /\ nread[1] = 2
    /\ result.v["carousel"] = "d1"
    /\ result.v["analysis"] = "d1"
    /\ StatusOf(steps, "transcription") = "active"

\* the number of newline bytes of a body
NewlinesIn(bytes) == Cardinality({i \in 1..Len(bytes) : bytes[i] = "LF"})

\* C27: once the stream has ended, the lines handed to the parser are the
\* newline-terminated ones and no more: as many as the body has newlines,
\* and the text after the last newline is still in the buffer, never handed
\* over; no error is set.
C27_RemainderDroppedAtEnd ==
    streamDone =>
        /\ Len(linesOut) = NewlinesIn(stream)
        /\ Split(TextDecode(stream, << >>).text, << >>, << >>) = Append(linesOut, buffer)
        /\ error = "null"

\* C27 witness: a body of one terminated record followed by an unterminated
\* one has ended; only the first was handed to the parser
C27_Witness ==
    /\ streamDone
    /\ stream = <<"a", "LF", "a", "a">>
    /\ nchunks = 1
    /\ linesOut = << <<"a">> >>
    /\ buffer = <<"a", "a">>
    /\ error = "null"

\* C28: the local reset does not wait for the reset-project request: the
\* step of resetSteps that sends the request leaves the stages at their
\* defaults, the aggregate empty and the error cleared, so the reset is done
\* also when the request never returns; and the end of the request, success
\* or failure, leaves no error.
C28_ResetDoesNotWaitForRequest ==
    [][/\ resetPending' > resetPending =>
            /\ steps' = INITIAL_STEPS
            /\ result' = NullResult
            /\ error' = "null"
       /\ resetPending' < resetPending => error' = "null"]_vars

\* the snapshot of a stage list, an aggregate and the requested outputs
SnapshotOf(st, agg, platforms) ==
    [result |-> <<Stringify(agg)>>, steps |-> <<st>>, platforms |-> <<platforms>>]

WithStatuses(st, to) ==
    [i \in DOMAIN st |->
        IF st[i].id \in DOMAIN to THEN [st[i] EXCEPT !.status = to[st[i].id]] ELSE st[i]]

\* the content events said to leave the stage list alone
StatusNeutralTypes ==
    {"linkedin", "twitter", "blog", "newsletter", "hooks", "broll", "seo", "thumbnails"}

\* C30: in every state, a carousel event sets generation completed and
\* visuals active and stores its data under carousel; an audio event sets
\* visuals completed and audio active and stores its data under audio; they
\* change no other stage; and a linkedin, twitter, blog, newsletter, hooks,
\* broll, seo or thumbnails event leaves the whole stage list as it is.
C30_CarouselAndAudioMoveStages ==
    LET carousel == ApplyLines(<<ContentEvent("carousel")>>, UI)
        audio    == ApplyLines(<<ContentEvent("audio")>>, UI)
    IN  /\ carousel.steps
              = WithStatuses(steps, [generation |-> "completed", visuals |-> "active"])
        /\ carousel.result.v["carousel"] = "fresh"
        /\ audio.steps
              = WithStatuses(steps, [visuals |-> "completed", audio |-> "active"])
        /\ audio.result.v["audio"] = "fresh"
        /\ \A type \in StatusNeutralTypes :
              ApplyLines(<<ContentEvent(type)>>, UI).steps = steps

\* C30 witness: the run read carousel, then broll and thumbnails, then audio:
\* generation and visuals are completed, audio is active, and the data of
\* carousel and audio are in the aggregate
C30_Witness ==
    /\ pc[1] = "read"
    /\ nread[1] = 3
    /\ chunk.run = 1
    /\ Len(chunk.lines) = 2
    /\ chunk.lines[1].type = "thumbnails"
    /\ chunk.lines[2].type = "audio"
    /\ StatusOf(steps, "transcription") = "active"
    /\ StatusOf(steps, "generation") = "completed"
    /\ StatusOf(steps, "visuals") = "completed"
    /\ StatusOf(steps, "audio") = "active"
    /\ result.v["carousel"] = "d1"
    /\ result.v["thumbnails"] = "d1"
    /\ result.v["audio"] = "d1"

\* the types of the lines read by the step
TypesRead == {chunk'.lines[i].type : i \in DOMAIN chunk'.lines}

\* the steps named by the progress lines read by the step
StepsReported ==
    {chunk'.lines[i].step : i \in {j \in DOMAIN chunk'.lines : chunk'.lines[j].type = "progress"}}

\* the event types said to have no effect on the stages, the aggregate and
\* the reported progress
InformationalTypes == {"status", "thinking_start", "thinking", "thinking_done"}

\* C31: a step that reads only status, thinking_start, thinking and
\* thinking_done lines leaves the stage list, the aggregate and the reported
\* progress as they were; a step that reads only progress lines (and such
\* lines) leaves the stage list and the aggregate as they were and changes the
\* reported value of no step but the named ones.  The same holds of each such
\* event applied alone in any state, for every stage id and percent.
C31_InformationalEventsFrame ==
    [][/\ (chunk'.run # 0 /\ TypesRead \subseteq InformationalTypes) =>
            /\ steps' = steps
            /\ result' = result
            /\ realProgress' = realProgress
       /\ (chunk'.run # 0 /\ TypesRead \subseteq InformationalTypes \cup {"progress"}) =>
            /\ steps' = steps
            /\ result' = result
            /\ \A id \in StageIds \ StepsReported : realProgress'[id] = realProgress[id]
       /\ \A type \in InformationalTypes :
            LET out == ApplyLines(<<Line(type, "analysis", 0, "tok", "")>>, UI) IN
            /\ out.steps = steps
            /\ out.result = result
            /\ out.realProgress = realProgress
       /\ \A id \in StageIds, p \in Percents :
            LET out == ApplyLines(<<Line("progress", id, p, "", "")>>, UI) IN
            /\ out.steps = steps
            /\ out.result = result
            /\ out.realProgress = [realProgress EXCEPT ![id] = p]]_vars

\* C31 witness: the run read a thinking_start line and a progress line
\* reporting 40.4 for transcription in one chunk: the thinking display is on,
\* 40.4 is reported, and the stages and the aggregate are those of the start
C31_Witness ==
    /\ chunk.run = 1
    /\ Len(chunk.lines) = 2
    /\ chunk.lines[1].type = "thinking_start"
    /\ chunk.lines[2].type = "progress"
    /\ nread[1] = 2
    /\ thinking.on
    /\ realProgress["transcription"] = 404
    /\ steps = updateStepStatus(SmartSteps(selectedPlatforms), "transcription", "active")
    /\ result = EmptyResult

\* the ids of a stage list, in order
IdsOf(st) == [i \in DOMAIN st |-> st[i].id]

SixStages == <<"transcription", "analysis", "generation", "visuals", "audio", "storage">>

StepStatuses == {"pending", "active", "completed", "error", "skipped"}

\* C32: in every state the stage list holds the six stage ids transcription,
\* analysis, generation, visuals, audio, storage in that order; every line a
\* stream can carry leaves it so; and a status update naming `features`, an
\* id no stage has, changes nothing.
C32_StageListFixed ==
    /\ IdsOf(steps) = SixStages
    /\ \A l \in LinesOf(1) : IdsOf(ApplyLines(<<l>>, UI).steps) = SixStages
    /\ \A status \in StepStatuses : updateStepStatus(steps, "features", status) = steps

\* C32 witness: the run for twitter only read research and then airtable,
\* whose case names `features`: the six stages are there in order, visuals
\* and audio still skipped, storage completed
C32_Witness ==
    /\ selectedPlatforms = {"twitter"}
    /\ chunk.run = 1
    /\ Len(chunk.lines) = 2
    /\ chunk.lines[1].type = "research"
    /\ chunk.lines[2].type = "airtable"
    /\ IdsOf(steps) = SixStages
    /\ StatusOf(steps, "storage") = "completed"
    /\ StatusOf(steps, "visuals") = "skipped"
    /\ StatusOf(steps, "audio") = "skipped"

\* reported percents between 0 and 100, in tenths, with the ends, the
\* values next to them and the values the streams carry
ReportedSamples == {0, 4, 5, 995, 1000} \cup Percents

\* the values the ramp can hold: 0, the floor up to the ceiling by
\* increments, and the 100 of a completed stage
SimulatedSamples ==
    {0, 1000} \cup {RampFloor + k * RampIncrement : k \in 0..((MaxProgress - RampFloor) \div RampIncrement)}

\* C33: in every state the progress shown for every stage is a whole number
\* from 0 to 100, it is 0 for a stage that is pending, skipped or in error
\* and 100 for a completed stage; and so it is for every status, every
\* reported percent from 0 to 100 and every value of the ramp.
C33_DisplayProgressRange ==
    /\ \A id \in StageIds :
          /\ DisplayProgress(id) \in 0..100
          /\ StatusOf(steps, id) \in {"pending", "skipped", "error"} => DisplayProgress(id) = 0
          /\ StatusOf(steps, id) = "completed" => DisplayProgress(id) = 100
          /\ realProgress[id] \in 0..1000
          /\ progressMap[id] \in SimulatedSamples
    /\ \A status \in StepStatuses, real \in ReportedSamples, simulated \in SimulatedSamples :
          LET shown == ProgressOf(status, real, simulated) IN
          /\ shown \in 0..100
          /\ status \in {"pending", "skipped", "error"} => shown = 0
          /\ status = "completed" => shown = 100

\* C33 witness: after a progress event reporting 40.4 for transcription and
\* a transcript event, and a stop, transcription is completed and shows 100
\* although 40.4 is still reported, and analysis, demoted to pending, and
\* visuals, skipped, show 0
C33_Witness ==
    /\ ~isLoading
    /\ error = StopMessage
    /\ nread[1] = 2
    /\ StatusOf(steps, "transcription") = "completed"
    /\ realProgress["transcription"] = 404
    /\ DisplayProgress("transcription") = 100
    /\ StatusOf(steps, "analysis") = "pending"
    /\ DisplayProgress("analysis") = 0
    /\ StatusOf(steps, "visuals") = "skipped"
    /\ DisplayProgress("visuals") = 0

\* C34: whenever the loading flag is false, no stage is active and no ramp
\* timer is live.
C34_IdleHasNoActiveStage ==
    ~isLoading =>
        \A id \in StageIds : StatusOf(steps, id) # "active" /\ timers[id] # "live"

\* C35: once the stream of the run has ended, with no error event applied
\* and no transport failure, every stage is completed and the run has left
\* the loading state, whichever lines the stream carried; it stays so as long
\* as no other run is started.
C35_EndOfStreamCompletesAll ==
    \A r \in Runs : pc[r] = "done" =>
        /\ \A i \in DOMAIN steps : steps[i].status = "completed"
        /\ ~isLoading

\* C35 witness: the stream of a run for twitter only ended without a line:
\* the six stages are completed, visuals and audio, which the plan skipped,
\* included
C35_Witness ==
    /\ pc[1] = "done"
    /\ nread[1] = 0
    /\ ~aborted[1]
    /\ selectedPlatforms = {"twitter"}
    /\ error = "null"
    /\ \A id \in StageIds : StatusOf(steps, id) = "completed"

\* the step is a handleProcessVideo call
StartStep == currentRun' > currentRun

\* C36: right after handleProcessVideo's start, before any line of the new
\* stream is applied, the surfaced error is null, the loading flag is true,
\* the stage list is the plan for the requested outputs with transcription
\* active (every other stage pending or skipped), and no aggregate key holds
\* content: each is undefined or the empty list.
C36_StartIsClean ==
    [][StartStep =>
          /\ error' = "null"
          /\ isLoading'
          /\ StatusOf(steps', "transcription") = "active"
          /\ \A i \in DOMAIN steps' :
                steps'[i].id # "transcription" =>
                    /\ steps'[i].status \in {"pending", "skipped"}
                    /\ steps'[i].status = SmartSteps(selectedPlatforms')[i].status
          /\ ~result'.isNull
          /\ \A k \in ResultKeys : result'.v[k] \in {"undefined", "[]"}
          /\ pc'[currentRun'] = "fetch"
          /\ nread'[currentRun'] = 0]_vars

\* C36 witness: a second run has just started, after a first run that stored
\* an analysis and read its stream to the end: its stages were all completed
\* and are now those of the new plan, and the aggregate is the empty
\* structure
C36_Witness ==
    /\ currentRun = 2
    /\ pc[1] = "done"
    /\ nread[1] >= 2
    /\ pc[2] = "fetch"
    /\ nread[2] = 0
    /\ chunk = NoChunk
    /\ isLoading
    /\ error = "null"
    /\ result = EmptyResult
    /\ steps = updateStepStatus(SmartSteps(selectedPlatforms), "transcription", "active")

====
